---- MODULE Spec2Model ----
(***************************************************************************)
(* typistapp: the matching engine that turns an image into a grid of       *)
(* characters (src/src/model.rs, element.rs, color.rs, view.rs, lib.rs).   *)
(*                                                                         *)
(* f64 values are modelled as exact rationals [n |-> numerator,            *)
(* d |-> denominator] in lowest terms; f64::INFINITY and NEG_INFINITY are  *)
(* 1/0 and -1/0.  Comparisons are by cross multiplication, so they are     *)
(* also right for the two infinities.                                      *)
(***************************************************************************)
EXTENDS Integers, Sequences, FiniteSets, TLC

(***************************************************************************)
(* Bounds of the model.                                                    *)
(***************************************************************************)
\* Side of the square glyph/tile canvas.  lib.rs:14 sets it to
\* IMAGE_FONT_SIZE + IMAGE_MARGIN * 2 = 20; every definition below is
\* written for an arbitrary side and the model is explored for a small one.
IMAGE_SIZE == 2
\* Largest width and height of the source image, in pixels.
MaxSide == 3
\* Largest column count (the `length` argument of Model::run).
MaxColumns == 4
\* Largest number of tiles (columns * rows) of an explored run.
MaxTiles == 4
\* Largest number of characters of the palette.
MaxPalette == 2

(***************************************************************************)
(* Program constants (src/src/lib.rs).                                     *)
(***************************************************************************)
\* F64_ALMOST_ZERO = 1e-12, kept as its decimal exponent.
F64_ALMOST_ZERO_EXP == 12
NUM_OF_CANDIDATES == 16
FULL_WIDTH_SPACE == "U+3000"

\* Option::None, of an Option of a record (an element, an image, a number)
\* and of an Option<char> (characters are strings).
None == [none |-> TRUE]
NoChar == "None"

(***************************************************************************)
(* Rational arithmetic.                                                    *)
(***************************************************************************)
Abs(x) == IF x < 0 THEN -x ELSE x

RECURSIVE GCD(_, _)
GCD(a, b) == IF b = 0 THEN a ELSE GCD(b, a % b)

Rat(n, d) == LET g == GCD(Abs(n), d) IN [n |-> n \div g, d |-> d \div g]

Zero == [n |-> 0, d |-> 1]
One == [n |-> 1, d |-> 1]
INFINITY == [n |-> 1, d |-> 0]
NEG_INFINITY == [n |-> -1, d |-> 0]

RLt(a, b) == a.n * b.d < b.n * a.d
RLe(a, b) == a.n * b.d <= b.n * a.d
RGe(a, b) == RLe(b, a)
RGt(a, b) == RLt(b, a)
RAdd(a, b) == LET g == GCD(a.d, b.d)
              IN Rat(a.n * (b.d \div g) + b.n * (a.d \div g), (a.d \div g) * b.d)
RNeg(a) == [n |-> -a.n, d |-> a.d]
RSub(a, b) == RAdd(a, RNeg(b))
RMul(a, b) == LET x == Rat(a.n, b.d)
                  y == Rat(b.n, a.d)
              IN [n |-> x.n * y.n, d |-> x.d * y.d]
\* a / b for b # 0
RDiv(a, b) == IF b.n > 0 THEN RMul(a, [n |-> b.d, d |-> b.n])
                         ELSE RMul(a, [n |-> -b.d, d |-> -b.n])
RAbs(a) == [n |-> Abs(a.n), d |-> a.d]
FromInt(i) == [n |-> i, d |-> 1]

RECURSIVE DivPow10(_, _)
DivPow10(x, k) == IF k = 0 THEN x ELSE DivPow10(x \div 10, k - 1)

\* a < 10^-k for a finite rational a: a.n * 10^k < a.d, computed without
\* forming 10^k.
LtPow10Neg(a, k) == a.n <= DivPow10(a.d - 1, k)

\* a < F64_ALMOST_ZERO
LtAlmostZero(a) == LtPow10Neg(a, F64_ALMOST_ZERO_EXP)

RECURSIVE SumSeq(_)
SumSeq(s) == IF s = <<>> THEN Zero ELSE RAdd(Head(s), SumSeq(Tail(s)))

Min(a, b) == IF a < b THEN a ELSE b
Max(a, b) == IF a > b THEN a ELSE b

(***************************************************************************)
(* color.rs                                                                *)
(***************************************************************************)
\* [y, u, v] of an RGB colour whose components are rationals in [0,1].
convert_rgb_to_yuv(r, g, b) ==
    << RAdd(RAdd(RMul(Rat(299, 1000), r), RMul(Rat(587, 1000), g)),
            RMul(Rat(114, 1000), b)),
       RAdd(RSub(RMul(Rat(-169, 1000), r), RMul(Rat(331, 1000), g)),
            RMul(Rat(500, 1000), b)),
       RSub(RSub(RMul(Rat(500, 1000), r), RMul(Rat(419, 1000), g)),
            RMul(Rat(81, 1000), b)) >>

luminance_from_yuv(yuv) == yuv[1]

luminance_from_rgba(rgba) ==
    luminance_from_yuv(convert_rgb_to_yuv(Rat(rgba[1], 255), Rat(rgba[2], 255),
                                          Rat(rgba[3], 255)))

White == <<255, 255, 255, 255>>
Black == <<0, 0, 0, 255>>

\* luminance_from_rgba of the colours that the pictures hold, tabulated
PixelLuminance == [rgba \in {White, Black} |-> luminance_from_rgba(rgba)]

(***************************************************************************)
(* The image provider (crate `image`).  An image is its dimensions, the    *)
(* offset of its top-left pixel in the picture it was cut from, and the    *)
(* picture, one of a few black-and-white patterns.                         *)
(***************************************************************************)
Patterns == {"white", "black", "diag"}

PatternPixel(pattern, x, y) ==
    CASE pattern = "white" -> White
      [] pattern = "black" -> Black
      [] pattern = "diag" -> IF x <= y THEN Black ELSE White

Image(w, h, ox, oy, pattern) ==
    [width |-> w, height |-> h, ox |-> ox, oy |-> oy, pattern |-> pattern]

\* GenericImageView::get_pixel
GetPixel(im, x, y) == PatternPixel(im.pattern, im.ox + x, im.oy + y)

\* f64::round of a rational >= 0 (half away from zero)
Round(a) == (2 * a.n + a.d) \div (2 * a.d)

\* image::math::utils::resize_dimensions(w, h, nwidth, nheight,
\* fill = false): the largest size of the same aspect ratio that fits in
\* nwidth x nheight, each side at least 1 (sizes below u32::MAX).
resize_dimensions(w, h, nwidth, nheight) ==
    LET wratio == Rat(nwidth, w)
        hratio == Rat(nheight, h)
        ratio == IF RLe(wratio, hratio) THEN wratio ELSE hratio
    IN << Max(Round(RMul(FromInt(w), ratio)), 1),
          Max(Round(RMul(FromInt(h), ratio)), 1) >>

\* DynamicImage::resize(nwidth, nheight, filter): the aspect ratio is
\* preserved; the resampled picture keeps its pattern.
ImageResize(im, nwidth, nheight) ==
    LET dims == resize_dimensions(im.width, im.height, nwidth, nheight)
    IN Image(dims[1], dims[2], im.ox, im.oy, im.pattern)

\* DynamicImage::crop_imm(x, y, width, height): the rectangle is clamped to
\* the bounds of the image.
ImageCropImm(im, x, y, w, h) ==
    LET cx == Min(x, im.width)
        cy == Min(y, im.height)
    IN Image(Min(w, im.width - cx), Min(h, im.height - cy),
             im.ox + cx, im.oy + cy, im.pattern)

(***************************************************************************)
(* The font provider (crate `ab_glyph`).  A glyph is None (no outline) or  *)
(* its pixel bounds and the pixels of the bounds it covers.                *)
(***************************************************************************)
Characters == {FULL_WIDTH_SPACE, "#", ".", " "}

Glyph(minx, miny, w, h, covered) ==
    [minx |-> minx, miny |-> miny, width |-> w, height |-> h,
     covered |-> covered]

\* Font::outline_glyph
OutlineGlyph(character) ==
    CASE character = "#" -> Glyph(0, 0, 2, 2, {<<0, 0>>, <<1, 0>>, <<0, 1>>, <<1, 1>>})
      [] character = "." -> Glyph(0, 0, 1, 1, {<<0, 0>>})
      [] character = "'" -> Glyph(0, 0, 2, 1, {<<1, 0>>})
      [] OTHER -> None

\* the coverage `c` that OutlinedGlyph::draw reports for pixel (x, y)
Coverage(outline, x, y) == IF <<x, y>> \in outline.covered THEN One ELSE Zero

(***************************************************************************)
(* element.rs                                                              *)
(***************************************************************************)
Ok(v) == [ok |-> TRUE, val |-> v]
Err(e) == [ok |-> FALSE, err |-> e]

Element(characteristics, luminance, character, im) ==
    [characteristics |-> characteristics, luminance |-> luminance,
     character |-> character, image |-> im]

\* Element::default()
DefaultElement == Element(<<>>, Zero, NoChar, None)

\* The canvas index that the draw callback of from_char writes for glyph
\* pixel (x, y), or 0 when the pixel falls outside the canvas.  Positions
\* are kept doubled, so that the halves of the centring stay integers.
CanvasIndex(outline, x, y) ==
    LET offset_x2 == IMAGE_SIZE - (2 * outline.minx + outline.width)
        offset_y2 == IMAGE_SIZE - (2 * outline.miny + outline.height)
        canvas_x2 == 2 * x + offset_x2
        canvas_y2 == 2 * y + offset_y2
    IN IF /\ canvas_x2 >= 0
          /\ canvas_x2 < 2 * IMAGE_SIZE
          /\ canvas_y2 >= 0
          /\ canvas_y2 < 2 * IMAGE_SIZE
       THEN (canvas_y2 \div 2) * IMAGE_SIZE + (canvas_x2 \div 2) + 1
       ELSE 0

\* from_char with the case of a missing outline not told apart from the
\* full-width space: every character without outline gives a blank element.
from_char_lenient(character) ==
    LET blank == [i \in 1..(IMAGE_SIZE * IMAGE_SIZE) |-> One]
    IN Ok(Element(blank, One, character, None))

from_char(character) ==
    LET blank == [i \in 1..(IMAGE_SIZE * IMAGE_SIZE) |-> One]
        outline == OutlineGlyph(character)
    IN IF outline = None
       THEN IF character = FULL_WIDTH_SPACE
            THEN Ok(Element(blank, One, FULL_WIDTH_SPACE, None))
            ELSE Err(<<"Failed to outline glyph for character", character>>)
       ELSE LET drawn(i) == {p \in (0..(outline.width - 1)) \X (0..(outline.height - 1)) :
                                 CanvasIndex(outline, p[1], p[2]) = i}
                characteristics ==
                    [i \in 1..(IMAGE_SIZE * IMAGE_SIZE) |->
                        IF drawn(i) = {} THEN One
                        ELSE LET p == CHOOSE q \in drawn(i) : TRUE
                             IN RSub(One, Coverage(outline, p[1], p[2]))]
                luminance == RDiv(SumSeq(characteristics),
                                  FromInt(IMAGE_SIZE * IMAGE_SIZE))
            IN Ok(Element(characteristics, luminance, character, None))

from_image(im) ==
    IF im.width = 0 \/ im.height = 0
    THEN Err(<<"Image has zero width or height.">>)
    ELSE LET characteristics ==
                 [i \in 1..(im.width * im.height) |->
                     PixelLuminance[GetPixel(im, (i - 1) % im.width,
                                             (i - 1) \div im.width)]]
             total_luminance == SumSeq(characteristics)
             luminance == RDiv(total_luminance, FromInt(im.width * im.height))
         IN Ok(Element(characteristics, luminance, NoChar, im))

\* normalize without the shift by min: value / (max - min).
normalize_unshifted(value, lo, hi) ==
    IF LtAlmostZero(RSub(hi, lo)) THEN Zero
    ELSE RDiv(value, RSub(hi, lo))

\* Element::normalize
normalize(value, lo, hi) ==
    IF LtAlmostZero(RSub(hi, lo)) THEN Zero
    ELSE RDiv(RSub(value, lo), RSub(hi, lo))

\* normalized without the check of the range.
normalized_unchecked(e, lo, hi) ==
    [ret |-> Ok(<<>>),
     self |-> [e EXCEPT
                 !.characteristics = [i \in 1..Len(e.characteristics) |->
                                         IF LtAlmostZero(RSub(hi, lo)) THEN Zero
                                         ELSE RDiv(RSub(e.characteristics[i], lo),
                                                   RSub(hi, lo))],
                 !.luminance = IF LtAlmostZero(RSub(hi, lo)) THEN Zero
                               ELSE RDiv(RSub(e.luminance, lo), RSub(hi, lo))]]

\* Element::normalized(&mut self, min, max): the Result it returns (ret) and
\* the element after the call (self).
normalized(e, lo, hi) ==
    IF RGe(lo, hi)
    THEN [ret |-> Err(<<"Invalid range: min must be less than max", lo, hi>>),
          self |-> e]
    ELSE [ret |-> Ok(<<>>),
          self |-> [e EXCEPT
                      !.characteristics = [i \in 1..Len(e.characteristics) |->
                                              normalize(e.characteristics[i], lo, hi)],
                      !.luminance = normalize(e.luminance, lo, hi)]]

(***************************************************************************)
(* model.rs: the pure parts                                                *)
(***************************************************************************)
\* TileImage with the two loops exchanged (x outer, y inner).
TileImage_transposed(im, size, cols, i) ==
    ImageCropImm(im, (i \div cols) * size, (i % cols) * size, size, size)

\* The crop of tile number i (from 0, in the order of the two loops of
\* picture_elements: y outer, x inner).
TileImage(im, size, cols, i) ==
    ImageCropImm(im, (i % cols) * size, (i \div cols) * size, size, size)

\* Model::picture_elements: the tiles in the order they are pushed, or the
\* error of the first tile that from_image rejects.
picture_elements_of(im, size, cols, rws) ==
    LET made == [i \in 1..(rws * cols) |->
                    from_image(TileImage(im, size, cols, i - 1))]
        bad == {i \in 1..(rws * cols) : ~made[i].ok}
    IN IF bad = {} THEN Ok([i \in 1..(rws * cols) |-> made[i].val])
       ELSE Err(made[CHOOSE i \in bad : \A j \in bad : i <= j].err)

\* Model::typeset_elements: the parallel map over the characters collected
\* into a Result: the elements in the order of the characters, or the error
\* of one of the characters that failed (the set of the possible results).
typeset_elements_of(chars) ==
    LET made == [i \in 1..Len(chars) |-> from_char(chars[i])]
        bad == {i \in 1..Len(chars) : ~made[i].ok}
    IN IF bad = {} THEN {Ok([i \in 1..Len(chars) |-> made[i].val])}
       ELSE {Err(made[i].err) : i \in bad}

\* The loops of Model::run over e.luminance(), from INFINITY / NEG_INFINITY.
RECURSIVE MinLuminance(_, _)
MinLuminance(elements, lo) ==
    IF elements = <<>> THEN lo
    ELSE MinLuminance(Tail(elements),
                      IF RLt(Head(elements).luminance, lo)
                      THEN Head(elements).luminance ELSE lo)

RECURSIVE MaxLuminance(_, _)
MaxLuminance(elements, hi) ==
    IF elements = <<>> THEN hi
    ELSE MaxLuminance(Tail(elements),
                      IF RGt(Head(elements).luminance, hi)
                      THEN Head(elements).luminance ELSE hi)

\* InsertByLuminance that puts an element before the elements of its
\* luminance: the sort of an unstable sort_by.
RECURSIVE InsertByLuminance_before_equal(_, _)
InsertByLuminance_before_equal(sorted, e) ==
    IF sorted = <<>> THEN <<e>>
    ELSE IF RLe(e.luminance, Head(sorted).luminance) THEN <<e>> \o sorted
    ELSE <<Head(sorted)>> \o InsertByLuminance_before_equal(Tail(sorted), e)

\* slice::sort_by with the comparison of luminances: a stable sort.
RECURSIVE InsertByLuminance(_, _)
InsertByLuminance(sorted, e) ==
    IF sorted = <<>> THEN <<e>>
    ELSE IF RLt(e.luminance, Head(sorted).luminance) THEN <<e>> \o sorted
    ELSE <<Head(sorted)>> \o InsertByLuminance(Tail(sorted), e)

RECURSIVE SortByLuminanceFrom(_, _)
SortByLuminanceFrom(sorted, rest) ==
    IF rest = <<>> THEN sorted
    ELSE SortByLuminanceFrom(InsertByLuminance(sorted, Head(rest)), Tail(rest))

SortByLuminance(elements) == SortByLuminanceFrom(<<>>, elements)

(***************************************************************************)
(* Model::correlation.  The coefficient numerator / (sqrt(den_x) *         *)
(* sqrt(den_y)) is irrational in general; it is returned as its signed     *)
(* square  sign(r) * r^2, which is rational and ordered like r, with       *)
(* -1.0, 0.0 and 1.0 mapped to themselves.                                 *)
(***************************************************************************)
SignedSquare(numerator, den_x, den_y) ==
    LET sq == RDiv(RMul(numerator, numerator), RMul(den_x, den_y))
    IN IF numerator.n < 0 THEN RNeg(sq) ELSE sq

\* correlation without the comparison of the means in the near-zero case.
correlation_means_ignored(x_values, y_values) ==
    IF Len(x_values) # Len(y_values) \/ x_values = <<>> \/ y_values = <<>>
    THEN None
    ELSE LET n == Len(x_values)
             mean_x == RDiv(SumSeq(x_values), FromInt(n))
             mean_y == RDiv(SumSeq(y_values), FromInt(n))
             diff_x == [i \in 1..n |-> RSub(x_values[i], mean_x)]
             diff_y == [i \in 1..n |-> RSub(y_values[i], mean_y)]
             numerator == SumSeq([i \in 1..n |-> RMul(diff_x[i], diff_y[i])])
             den_x == SumSeq([i \in 1..n |-> RMul(diff_x[i], diff_x[i])])
             den_y == SumSeq([i \in 1..n |-> RMul(diff_y[i], diff_y[i])])
             \* denominator.abs() < F64_ALMOST_ZERO, on the squares
             denominator_zero ==
                 LtPow10Neg(RMul(den_x, den_y), 2 * F64_ALMOST_ZERO_EXP)
             is_den_x_zero == LtAlmostZero(RAbs(den_x))
             is_den_y_zero == LtAlmostZero(RAbs(den_y))
             are_means_equal == LtAlmostZero(RAbs(RSub(mean_x, mean_y)))
         IN IF denominator_zero
            THEN IF is_den_x_zero /\ is_den_y_zero
                 THEN One ELSE Zero
            ELSE SignedSquare(numerator, den_x, den_y)

correlation(x_values, y_values) ==
    IF Len(x_values) # Len(y_values) \/ x_values = <<>> \/ y_values = <<>>
    THEN None
    ELSE LET n == Len(x_values)
             mean_x == RDiv(SumSeq(x_values), FromInt(n))
             mean_y == RDiv(SumSeq(y_values), FromInt(n))
             diff_x == [i \in 1..n |-> RSub(x_values[i], mean_x)]
             diff_y == [i \in 1..n |-> RSub(y_values[i], mean_y)]
             numerator == SumSeq([i \in 1..n |-> RMul(diff_x[i], diff_y[i])])
             den_x == SumSeq([i \in 1..n |-> RMul(diff_x[i], diff_x[i])])
             den_y == SumSeq([i \in 1..n |-> RMul(diff_y[i], diff_y[i])])
             \* denominator.abs() < F64_ALMOST_ZERO, on the squares
             denominator_zero ==
                 LtPow10Neg(RMul(den_x, den_y), 2 * F64_ALMOST_ZERO_EXP)
             is_den_x_zero == LtAlmostZero(RAbs(den_x))
             is_den_y_zero == LtAlmostZero(RAbs(den_y))
             are_means_equal == LtAlmostZero(RAbs(RSub(mean_x, mean_y)))
         IN IF denominator_zero
            THEN IF is_den_x_zero /\ is_den_y_zero /\ are_means_equal
                 THEN One ELSE Zero
            ELSE SignedSquare(numerator, den_x, den_y)

\* slice::binary_search_by with the comparison against target, on a slice
\* sorted by luminance: Ok(i) for an i of that luminance (which one is not
\* specified when there are several), else Err(insertion point).
BinarySearchByLuminance(elements, target) ==
    LET hits == {i \in 0..(Len(elements) - 1) : elements[i + 1].luminance = target}
    IN IF hits # {} THEN {Ok(i) : i \in hits}
       ELSE {Err(Cardinality({i \in 0..(Len(elements) - 1) :
                                 RLt(elements[i + 1].luminance, target)}))}

\* ClosestOf without the clamp of an insertion point past the last entry.
ClosestOf_unclamped(found, target, elements) ==
    IF found.ok THEN found.val
    ELSE LET i == found.err
         IN IF i = 0 \/ i >= Len(elements) THEN i
            ELSE LET diff1 == RAbs(RSub(elements[i].luminance, target))
                     diff2 == RAbs(RSub(elements[i + 1].luminance, target))
                 IN IF RLt(diff1, diff2) THEN i - 1 ELSE i

\* ClosestOf with a tie of the two distances given to i - 1.
ClosestOf_ties_low(found, target, elements) ==
    IF found.ok THEN found.val
    ELSE LET i == found.err
         IN IF i = 0 THEN 0
            ELSE IF i >= Len(elements) THEN Len(elements) - 1
            ELSE LET diff1 == RAbs(RSub(elements[i].luminance, target))
                     diff2 == RAbs(RSub(elements[i + 1].luminance, target))
                 IN IF RLe(diff1, diff2) THEN i - 1 ELSE i

\* The index that closest_luminance_index makes of one binary search result.
ClosestOf(found, target, elements) ==
    IF found.ok THEN found.val
    ELSE LET i == found.err
         IN IF i = 0 THEN 0
            ELSE IF i >= Len(elements) THEN Len(elements) - 1
            ELSE LET diff1 == RAbs(RSub(elements[i].luminance, target))
                     diff2 == RAbs(RSub(elements[i + 1].luminance, target))
                 IN IF RLt(diff1, diff2) THEN i - 1 ELSE i

\* Model::closest_luminance_index: the indices (from 0) it can return.
closest_luminance_index(target, elements) ==
    {ClosestOf(r, target, elements) : r \in BinarySearchByLuminance(elements, target)}

\* The loop of best_match_element from candidate number i on, with the
\* running `max` (best_score) and `best` (an index into candidates from 1, 0 for None).
RECURSIVE BestMatchFrom(_, _, _, _, _)
BestMatchFrom(target, candidates, i, best_score, best) ==
    IF i > Len(candidates) THEN best
    ELSE LET score == correlation(target.characteristics,
                                  candidates[i].characteristics)
         IN IF score # None /\ RGt(score, best_score)
            THEN BestMatchFrom(target, candidates, i + 1, score, i)
            ELSE BestMatchFrom(target, candidates, i + 1, best_score, best)

\* Model::best_match_element: the chosen candidate, or None.
best_match_element(target, candidates) ==
    LET best == BestMatchFrom(target, candidates, 1, RNeg(One), 0)
    IN IF best = 0 THEN None ELSE candidates[best]

\* search_typeset_element with every entry of the palette as a candidate.
search_typeset_element_whole(picture_element, elements) ==
    IF elements = <<>> THEN {None}
    ELSE {best_match_element(picture_element, elements)
          : index \in closest_luminance_index(picture_element.luminance, elements)}

\* Model::search_typeset_element: the results it can return (one for each
\* index the coarse search can return).
search_typeset_element(picture_element, elements) ==
    IF elements = <<>> THEN {None}
    ELSE {LET from == Max(index - NUM_OF_CANDIDATES \div 2, 0)
              to == Min(Len(elements), from + NUM_OF_CANDIDATES)
              candidates == SubSeq(elements, from + 1, to)
          IN IF candidates = <<>> THEN elements[index + 1]
             ELSE best_match_element(picture_element, candidates)
          : index \in closest_luminance_index(picture_element.luminance, elements)}

\* The closure of Model::convert for one tile.
convert_one(picture_element, elements) ==
    {IF found = None THEN DefaultElement ELSE found
     : found \in search_typeset_element(picture_element, elements)}

(***************************************************************************)
(* view.rs: View::animate prints data, cycled, cell by cell: the character *)
(* of column x and row y goes to terminal position (x * 2, y).  The screen *)
(* is the set of the printed cells.                                        *)
(***************************************************************************)
animate(cells, cols, rws) ==
    IF cells = <<>> THEN {}
    ELSE {[col |-> x * 2, row |-> y, ch |-> cells[((y * cols + x) % Len(cells)) + 1]]
          : x \in 0..(cols - 1), y \in 0..(rws - 1)}

(***************************************************************************)
(* Model::run as a state machine.                                          *)
(***************************************************************************)
VARIABLES
    length, characters, image,          \* the arguments of Model::run
    pc,                                 \* the statement run is at
    img, rows,                          \* the resized image, the row count
    typeset_elements, picture_elements,
    typeset_min, typeset_max, picture_min, picture_max,
    pending,                            \* the items the parallel loop at pc has yet to do
    typist_art_elements,                \* the slots of the collect of convert
    data,
    screen,                             \* what View::animate has printed
    result,                             \* "running", Ok, Err(e) or "panic"
    call_self, call_min, call_max, call_outcome,  \* a direct call of Element::normalized
    corr_x_values, corr_y_values, corr_ret,       \* a direct call of Model::correlation
    search_picture_element, search_typeset_elements,   \* the arguments of a direct
    search_index, search_ret            \* call of the searches, and what they return

runVars == <<length, characters, image, pc, img, rows, typeset_elements,
             picture_elements, typeset_min, typeset_max, picture_min,
             picture_max, pending, typist_art_elements, data, screen, result>>
normalizedVars == <<call_self, call_min, call_max, call_outcome>>
corrVars == <<corr_x_values, corr_y_values, corr_ret>>
searchVars == <<search_picture_element, search_typeset_elements, search_index,
                search_ret>>
callVars == <<normalizedVars, corrVars, searchVars>>
vars == <<runVars, callVars>>

columns == length
width == IMAGE_SIZE * columns
hight == (image.height * width) \div image.width

Running == [running |-> TRUE]
Panic == [panic |-> TRUE]

\* what a direct call has returned: nothing yet, or the value
NotCalled == [called |-> FALSE]
Returned(v) == [called |-> TRUE, value |-> v]

RECURSIVE SeqsUpTo(_, _)
SeqsUpTo(S, n) ==
    IF n = 0 THEN {<<>>}
    ELSE LET shorter == SeqsUpTo(S, n - 1)
         IN shorter \cup {Append(s, c) : s \in shorter, c \in S}

\* The source images and column counts of the explored runs.
Inputs ==
    {input \in [length : 1..MaxColumns, width : 1..MaxSide, height : 1..MaxSide,
                pattern : Patterns] :
        LET h == (input.height * IMAGE_SIZE * input.length) \div input.width
        IN input.length * (h \div IMAGE_SIZE) <= MaxTiles}

NoNormalized ==
    /\ call_self = DefaultElement
    /\ call_min = Zero
    /\ call_max = Zero
    /\ call_outcome = None

NoCorrelation ==
    /\ corr_x_values = <<>>
    /\ corr_y_values = <<>>
    /\ corr_ret = NotCalled

NoSearch ==
    /\ search_picture_element = DefaultElement
    /\ search_typeset_elements = <<>>
    /\ search_index = NotCalled
    /\ search_ret = NotCalled

NoCall == NoNormalized /\ NoCorrelation /\ NoSearch

Init ==
    /\ \E input \in Inputs :
          /\ length = input.length
          /\ image = Image(input.width, input.height, 0, 0, input.pattern)
    /\ characters \in SeqsUpTo(Characters, MaxPalette)
    /\ pc = "resize"
    /\ img = None
    /\ rows = 0
    /\ typeset_elements = <<>>
    /\ picture_elements = <<>>
    /\ typeset_min = INFINITY
    /\ typeset_max = NEG_INFINITY
    /\ picture_min = INFINITY
    /\ picture_max = NEG_INFINITY
    /\ pending = {}
    /\ typist_art_elements = <<>>
    /\ data = <<>>
    /\ screen = {}
    /\ result = Running
    /\ NoCall

\* model.rs:17-22
Resize ==
    /\ pc = "resize"
    /\ img' = ImageResize(image, width, hight)
    /\ rows' = hight \div IMAGE_SIZE
    /\ pc' = "typeset_elements"
    /\ UNCHANGED <<length, characters, image, typeset_elements, picture_elements,
                   typeset_min, typeset_max, picture_min, picture_max, pending,
                   typist_art_elements, data, screen, result, callVars>>

\* model.rs:32
TypesetElements ==
    /\ pc = "typeset_elements"
    /\ \E r \in typeset_elements_of(characters) :
          IF r.ok
          THEN /\ typeset_elements' = r.val
               /\ pc' = "picture_elements"
               /\ result' = result
          ELSE /\ typeset_elements' = typeset_elements
               /\ pc' = "returned"
               /\ result' = r
    /\ UNCHANGED <<length, characters, image, img, rows, picture_elements,
                   typeset_min, typeset_max, picture_min, picture_max, pending,
                   typist_art_elements, data, screen, callVars>>

\* model.rs:33
PictureElements ==
    /\ pc = "picture_elements"
    /\ LET r == picture_elements_of(img, IMAGE_SIZE, columns, rows)
       IN IF r.ok
          THEN /\ picture_elements' = r.val
               /\ pc' = "min_max"
               /\ result' = result
          ELSE /\ picture_elements' = picture_elements
               /\ pc' = "returned"
               /\ result' = r
    /\ UNCHANGED <<length, characters, image, img, rows, typeset_elements,
                   typeset_min, typeset_max, picture_min, picture_max, pending,
                   typist_art_elements, data, screen, callVars>>

\* model.rs:41-60
MinMax ==
    /\ pc = "min_max"
    /\ typeset_min' = MinLuminance(typeset_elements, INFINITY)
    /\ typeset_max' = MaxLuminance(typeset_elements, NEG_INFINITY)
    /\ picture_min' = MinLuminance(picture_elements, INFINITY)
    /\ picture_max' = MaxLuminance(picture_elements, NEG_INFINITY)
    /\ pending' = DOMAIN typeset_elements
    /\ pc' = "normalize_typeset"
    /\ UNCHANGED <<length, characters, image, img, rows, typeset_elements,
                   picture_elements, typist_art_elements, data, screen, result,
                   callVars>>

\* NormalizeTypeset with the range of the tiles in place of the range of
\* the palette.
NormalizeTypeset_cross(i) ==
    /\ pc = "normalize_typeset"
    /\ i \in pending
    /\ LET r == normalized(typeset_elements[i], picture_min, picture_max)
       IN /\ typeset_elements' = [typeset_elements EXCEPT ![i] = r.self]
          /\ IF r.ret.ok
             THEN /\ pending' = pending \ {i}
                  /\ pc' = pc
                  /\ result' = result
             ELSE /\ pending' = pending
                  /\ pc' = "panicked"
                  /\ result' = Panic
    /\ UNCHANGED <<length, characters, image, img, rows, picture_elements,
                   typeset_min, typeset_max, picture_min, picture_max,
                   typist_art_elements, data, screen, callVars>>

\* model.rs:69-71, one item of the parallel for_each; unwrap panics on Err
NormalizeTypeset(i) ==
    /\ pc = "normalize_typeset"
    /\ i \in pending
    /\ LET r == normalized(typeset_elements[i], typeset_min, typeset_max)
       IN /\ typeset_elements' = [typeset_elements EXCEPT ![i] = r.self]
          /\ IF r.ret.ok
             THEN /\ pending' = pending \ {i}
                  /\ pc' = pc
                  /\ result' = result
             ELSE /\ pending' = pending
                  /\ pc' = "panicked"
                  /\ result' = Panic
    /\ UNCHANGED <<length, characters, image, img, rows, picture_elements,
                   typeset_min, typeset_max, picture_min, picture_max,
                   typist_art_elements, data, screen, callVars>>

\* NormalizeTypesetDone that does not wait for the items of the for_each.
NormalizeTypesetDone_early ==
    /\ pc = "normalize_typeset"
    /\ pc' = "normalize_picture"
    /\ pending' = DOMAIN picture_elements
    /\ UNCHANGED <<length, characters, image, img, rows, typeset_elements,
                   picture_elements, typeset_min, typeset_max, picture_min,
                   picture_max, typist_art_elements, data, screen, result, callVars>>

\* model.rs:71, the for_each has done every item
NormalizeTypesetDone ==
    /\ pc = "normalize_typeset"
    /\ pending = {}
    /\ pc' = "normalize_picture"
    /\ pending' = DOMAIN picture_elements
    /\ UNCHANGED <<length, characters, image, img, rows, typeset_elements,
                   picture_elements, typeset_min, typeset_max, picture_min,
                   picture_max, typist_art_elements, data, screen, result, callVars>>

\* model.rs:72-74, one item of the parallel for_each; unwrap panics on Err
NormalizePicture(i) ==
    /\ pc = "normalize_picture"
    /\ i \in pending
    /\ LET r == normalized(picture_elements[i], picture_min, picture_max)
       IN /\ picture_elements' = [picture_elements EXCEPT ![i] = r.self]
          /\ IF r.ret.ok
             THEN /\ pending' = pending \ {i}
                  /\ pc' = pc
                  /\ result' = result
             ELSE /\ pending' = pending
                  /\ pc' = "panicked"
                  /\ result' = Panic
    /\ UNCHANGED <<length, characters, image, img, rows, typeset_elements,
                   typeset_min, typeset_max, picture_min, picture_max,
                   typist_art_elements, data, screen, callVars>>

\* model.rs:74, the for_each has done every item
NormalizePictureDone ==
    /\ pc = "normalize_picture"
    /\ pending = {}
    /\ pc' = "sort"
    /\ UNCHANGED <<length, characters, image, img, rows, typeset_elements,
                   picture_elements, typeset_min, typeset_max, picture_min,
                   picture_max, pending, typist_art_elements, data, screen,
                   result, callVars>>

\* model.rs:78-82
Sort ==
    /\ pc = "sort"
    /\ typeset_elements' = SortByLuminance(typeset_elements)
    /\ pc' = "convert"
    /\ pending' = DOMAIN picture_elements
    /\ typist_art_elements' = [i \in DOMAIN picture_elements |-> None]
    /\ UNCHANGED <<length, characters, image, img, rows, picture_elements,
                   typeset_min, typeset_max, picture_min, picture_max, data,
                   screen, result, callVars>>

\* Convert that pushes the match of its item to the end of a shared vector
\* (the first free slot) instead of writing the slot of the item.
Convert_append(i) ==
    /\ pc = "convert"
    /\ i \in pending
    /\ \E e \in convert_one(picture_elements[i], typeset_elements) :
          LET free == {k \in DOMAIN typist_art_elements :
                          typist_art_elements[k] = None}
              first == CHOOSE k \in free : \A l \in free : k <= l
          IN typist_art_elements' = [typist_art_elements EXCEPT ![first] = e]
    /\ pending' = pending \ {i}
    /\ UNCHANGED <<length, characters, image, pc, img, rows, typeset_elements,
                   picture_elements, typeset_min, typeset_max, picture_min,
                   picture_max, data, screen, result, callVars>>

\* model.rs:306-310, one item of the parallel map of Model::convert, written
\* to its own slot of the collected vector
Convert(i) ==
    /\ pc = "convert"
    /\ i \in pending
    /\ \E e \in convert_one(picture_elements[i], typeset_elements) :
          typist_art_elements' = [typist_art_elements EXCEPT ![i] = e]
    /\ pending' = pending \ {i}
    /\ UNCHANGED <<length, characters, image, pc, img, rows, typeset_elements,
                   picture_elements, typeset_min, typeset_max, picture_min,
                   picture_max, data, screen, result, callVars>>

\* model.rs:85 returns; model.rs:106-109
Assemble ==
    /\ pc = "convert"
    /\ pending = {}
    /\ data' = [i \in DOMAIN typist_art_elements |->
                   IF typist_art_elements[i].character = NoChar
                   THEN FULL_WIDTH_SPACE
                   ELSE typist_art_elements[i].character]
    /\ pc' = "animate"
    /\ UNCHANGED <<length, characters, image, img, rows, typeset_elements,
                   picture_elements, typeset_min, typeset_max, picture_min,
                   picture_max, pending, typist_art_elements, screen, result,
                   callVars>>

\* model.rs:110-113
Animate ==
    /\ pc = "animate"
    /\ screen' = animate(data, columns, rows)
    /\ pc' = "returned"
    /\ result' = Ok(<<>>)
    /\ UNCHANGED <<length, characters, image, img, rows, typeset_elements,
                   picture_elements, typeset_min, typeset_max, picture_min,
                   picture_max, pending, typist_art_elements, data, callVars>>

Next ==
    \/ Resize
    \/ TypesetElements
    \/ PictureElements
    \/ MinMax
    \/ \E i \in pending : NormalizeTypeset(i)
    \/ NormalizeTypesetDone
    \/ \E i \in pending : NormalizePicture(i)
    \/ NormalizePictureDone
    \/ Sort
    \/ \E i \in pending : Convert(i)
    \/ Assemble
    \/ Animate

Spec == Init /\ [][Next]_vars

(***************************************************************************)
(* Model::run on one picture of two tiles, with the palettes of a font     *)
(* that has two glyphs of the same coverage ("." and "'").                 *)
(***************************************************************************)
\* Largest number of characters of these palettes.
MaxGlyphs == 3

Glyphs == {FULL_WIDTH_SPACE, "#", ".", "'"}

InitPalette ==
    /\ length = 1
    /\ image = Image(1, 2, 0, 0, "diag")
    /\ characters \in SeqsUpTo(Glyphs, MaxGlyphs)
    /\ pc = "resize"
    /\ img = None
    /\ rows = 0
    /\ typeset_elements = <<>>
    /\ picture_elements = <<>>
    /\ typeset_min = INFINITY
    /\ typeset_max = NEG_INFINITY
    /\ picture_min = INFINITY
    /\ picture_max = NEG_INFINITY
    /\ pending = {}
    /\ typist_art_elements = <<>>
    /\ data = <<>>
    /\ screen = {}
    /\ result = Running
    /\ NoCall

SpecPalette == InitPalette /\ [][Next]_vars

(***************************************************************************)
(* A direct call of Element::normalized(min, max) on an element, with      *)
(* arguments the caller supplies.                                          *)
(***************************************************************************)
\* Largest length of the characteristics of the element of a direct call.
MaxCallLen == 2

CallValues == {Rat(0, 10), Rat(5, 10), Rat(7, 10), Rat(10, 10)}

NoRun ==
    /\ length = 1
    /\ characters = <<>>
    /\ image = Image(1, 1, 0, 0, "white")
    /\ pc = "idle"
    /\ img = None
    /\ rows = 0
    /\ typeset_elements = <<>>
    /\ picture_elements = <<>>
    /\ typeset_min = INFINITY
    /\ typeset_max = NEG_INFINITY
    /\ picture_min = INFINITY
    /\ picture_max = NEG_INFINITY
    /\ pending = {}
    /\ typist_art_elements = <<>>
    /\ data = <<>>
    /\ screen = {}
    /\ result = Running

InitCall ==
    /\ NoRun
    /\ \E cs \in SeqsUpTo(CallValues, MaxCallLen), l \in CallValues :
          call_self = Element(cs, l, "A", None)
    /\ call_min \in CallValues
    /\ call_max \in CallValues
    /\ call_outcome = None
    /\ NoCorrelation
    /\ NoSearch

\* element.rs:154-181
CallNormalized ==
    /\ call_outcome = None
    /\ LET r == normalized(call_self, call_min, call_max)
       IN /\ call_outcome' = r.ret
          /\ call_self' = r.self
    /\ UNCHANGED <<runVars, call_min, call_max, corrVars, searchVars>>

NextCall == CallNormalized

SpecCall == InitCall /\ [][NextCall]_vars

(***************************************************************************)
(* A direct call of Model::correlation(x_values, y_values), with slices    *)
(* the caller supplies.                                                    *)
(***************************************************************************)
\* Largest length of a slice of a direct call of correlation.
MaxVector == 3

VectorValues == {Rat(0, 2), Rat(1, 2), Rat(2, 2)}

InitCorrelation ==
    /\ NoRun
    /\ NoNormalized
    /\ NoSearch
    /\ corr_x_values \in SeqsUpTo(VectorValues, MaxVector)
    /\ corr_y_values \in SeqsUpTo(VectorValues, MaxVector)
    /\ corr_ret = NotCalled

\* model.rs:181-216
CallCorrelation ==
    /\ corr_ret = NotCalled
    /\ corr_ret' = Returned(correlation(corr_x_values, corr_y_values))
    /\ UNCHANGED <<runVars, normalizedVars, searchVars, corr_x_values,
                   corr_y_values>>

NextCorrelation == CallCorrelation

SpecCorrelation == InitCorrelation /\ [][NextCorrelation]_vars

(***************************************************************************)
(* A direct call of Model::closest_luminance_index or of                   *)
(* Model::search_typeset_element, with a tile fingerprint and a palette    *)
(* sorted by luminance that the caller supplies.  The palette is a run of  *)
(* dark entries, a run of middle entries and a run of bright entries; the  *)
(* entries of a run have the same characteristics, and every entry has its *)
(* own character.                                                          *)
(***************************************************************************)
\* Length of a long run of palette entries of the same luminance.
MaxRun == 9

RunLengths == {0, 1, MaxRun}
RunShapes == {<<Zero, One, Zero, One>>, <<One, Zero, One, Zero>>,
              <<One, One, One, One>>, <<One>>}
TargetLuminances == {Rat(-1, 4), Rat(1, 4), Rat(3, 8), Rat(1, 2), Rat(5, 4)}

SortedPalette(n1, s1, n2, s2, n3, s3) ==
    [i \in 1..(n1 + n2 + n3) |->
        IF i <= n1 THEN Element(s1, Zero, ToString(i), None)
        ELSE IF i <= n1 + n2 THEN Element(s2, Rat(1, 2), ToString(i), None)
        ELSE Element(s3, One, ToString(i), None)]

InitSearch ==
    /\ NoRun
    /\ NoNormalized
    /\ NoCorrelation
    /\ \E l \in TargetLuminances :
          search_picture_element = Element(<<Zero, One, Zero, One>>, l, NoChar, None)
    /\ \E n1, n2, n3 \in RunLengths, s1, s2, s3 \in RunShapes :
          search_typeset_elements = SortedPalette(n1, s1, n2, s2, n3, s3)
    /\ search_index = NotCalled
    /\ search_ret = NotCalled

\* model.rs:238-260
CallClosestLuminanceIndex ==
    /\ search_index = NotCalled
    /\ search_ret = NotCalled
    /\ \E i \in closest_luminance_index(search_picture_element.luminance,
                                         search_typeset_elements) :
          search_index' = Returned(i)
    /\ UNCHANGED <<runVars, normalizedVars, corrVars, search_picture_element,
                   search_typeset_elements, search_ret>>

\* model.rs:279-302
CallSearchTypesetElement ==
    /\ search_index = NotCalled
    /\ search_ret = NotCalled
    /\ \E found \in search_typeset_element(search_picture_element,
                                            search_typeset_elements) :
          search_ret' = Returned(found)
    /\ UNCHANGED <<runVars, normalizedVars, corrVars, search_picture_element,
                   search_typeset_elements, search_index>>

NextSearch == CallClosestLuminanceIndex \/ CallSearchTypesetElement

SpecSearch == InitSearch /\ [][NextSearch]_vars

(***************************************************************************)
(* Properties.                                                             *)
(***************************************************************************)
IsErr(r) == "err" \in DOMAIN r
IsOk(r) == r = Ok(<<>>)
Terminated == pc \in {"returned", "panicked"}

\* the statements after both collections have been normalized
AfterNormalization == pc \in {"sort", "convert", "animate"} \/ IsOk(result)
\* the statements at which picture_elements holds the extracted tiles
TilesExtracted ==
    pc \in {"min_max", "normalize_typeset", "normalize_picture", "sort", "convert",
            "animate", "panicked"} \/ IsOk(result)

AllZero(e) ==
    /\ e.luminance = Zero
    /\ \A k \in DOMAIN e.characteristics : e.characteristics[k] = Zero

InUnit(a) == RLe(Zero, a) /\ RLe(a, One)

\* the luminances of the glyphs of the characters that have one
GlyphLuminances == {from_char(characters[i]).val.luminance : i \in DOMAIN characters}
Renders(c) == OutlineGlyph(c) # None \/ c = FULL_WIDTH_SPACE
PaletteRenders == \A i \in DOMAIN characters : Renders(characters[i])
\* a character of the palette cannot be rendered
GlyphFails == \E i \in DOMAIN characters : ~Renders(characters[i])
\* a tile of the grid lies outside the resized image
TileFails ==
    LET resized == resize_dimensions(image.width, image.height, width, hight)
    IN \E x \in 0..(columns - 1), y \in 0..((hight \div IMAGE_SIZE) - 1) :
          \/ x * IMAGE_SIZE >= resized[1]
          \/ y * IMAGE_SIZE >= resized[2]
\* the resized image is exactly the grid: columns * rows whole tiles
MatchingDimensions ==
    /\ resize_dimensions(image.width, image.height, width, hight) = <<width, hight>>
    /\ hight % IMAGE_SIZE = 0
    /\ hight > 0

\* C1: the normalization of the two collections inside Model::run never
\* fails and never panics; a collection whose fingerprints all have the same
\* brightness (min = max) is normalized to all 0.0.
C1_CollectionNormalizationNeverFails ==
    /\ result # Panic
    /\ (pc \in {"normalize_picture", "sort", "convert", "animate"}
        /\ typeset_elements # <<>> /\ typeset_min = typeset_max)
          => \A i \in DOMAIN typeset_elements : AllZero(typeset_elements[i])
    /\ (pc \in {"sort", "convert", "animate"}
        /\ picture_elements # <<>> /\ picture_min = picture_max)
          => \A i \in DOMAIN picture_elements : AllZero(picture_elements[i])

\* C2: with a palette that renders (and has two different brightnesses), a
\* run on an all-white image of matching dimensions completes and maps every
\* tile to the brightest character of the palette, and a run on an all-black
\* image to the darkest one.
C2_WhiteToBrightestBlackToDarkest ==
    (/\ Terminated
     /\ PaletteRenders
     /\ Cardinality(GlyphLuminances) >= 2
     /\ MatchingDimensions
     /\ image.pattern \in {"white", "black"})
    => /\ IsOk(result)
       /\ Len(data) = columns * (hight \div IMAGE_SIZE)
       /\ \A k \in DOMAIN data :
             /\ data[k] \in {characters[i] : i \in DOMAIN characters}
             /\ \A l \in GlyphLuminances :
                   IF image.pattern = "white"
                   THEN RLe(l, from_char(data[k]).val.luminance)
                   ELSE RGe(l, from_char(data[k]).val.luminance)

\* C3: with an empty palette a run (here: on an image all of whose tiles
\* can be extracted) never returns an error and never panics, no tile gets a
\* match, and every output character is the full-width space.
C3_EmptyPaletteNeverFails ==
    (characters = <<>> /\ ~TileFails)
    => /\ result # Panic
       /\ ~IsErr(result)
       /\ \A k \in DOMAIN typist_art_elements :
             typist_art_elements[k] \in {None, DefaultElement}
       /\ \A k \in DOMAIN data : data[k] = FULL_WIDTH_SPACE
       /\ IsOk(result) => Len(data) = columns * rows

\* C4: the run is all-or-nothing: when a character of the palette has no
\* outline and is not the full-width space, or a tile is rejected, the run
\* returns that error, no character is chosen and View::animate is not called.
C4_AllOrNothing ==
    /\ (GlyphFails \/ TileFails)
       => /\ pc \in {"resize", "typeset_elements", "picture_elements", "returned"}
          /\ typist_art_elements = <<>>
          /\ data = <<>>
          /\ screen = {}
          /\ ~IsOk(result)
    /\ (Terminated /\ GlyphFails)
       => /\ IsErr(result)
          /\ result.err[1] = "Failed to outline glyph for character"
          /\ \E i \in DOMAIN characters :
                ~Renders(characters[i]) /\ result.err[2] = characters[i]
    /\ (Terminated /\ ~GlyphFails /\ TileFails)
       => result = Err(<<"Image has zero width or height.">>)
    /\ IsErr(result) => (GlyphFails \/ TileFails)
\* a run that built the palette and returned the error of a rejected tile
C4_Witness ==
    /\ pc = "returned"
    /\ result = Err(<<"Image has zero width or height.">>)
    /\ typeset_elements # <<>>
    /\ TileFails

\* C5: there are exactly columns * rows tiles, tile y * columns + x is the
\* crop at pixel offset (x * IMAGE_SIZE, y * IMAGE_SIZE), and the character
\* printed at column x of row y is the character chosen for that tile, the
\* full-width space when the match has no character.
C5_RowMajorEndToEnd ==
    /\ TilesExtracted
       => /\ rows = hight \div IMAGE_SIZE
          /\ Len(picture_elements) = columns * rows
          /\ \A x \in 0..(columns - 1), y \in 0..(rows - 1) :
                LET tile == picture_elements[y * columns + x + 1].image
                IN /\ tile.ox = x * IMAGE_SIZE
                   /\ tile.oy = y * IMAGE_SIZE
    /\ IsOk(result)
       => /\ Len(typist_art_elements) = columns * rows
          /\ \A x \in 0..(columns - 1), y \in 0..(rows - 1) :
                LET k == y * columns + x + 1
                    chosen == typist_art_elements[k]
                IN /\ chosen \in convert_one(picture_elements[k], typeset_elements)
                   /\ \E cell \in screen :
                         /\ cell.col = 2 * x
                         /\ cell.row = y
                         /\ cell.ch = IF chosen.character = NoChar
                                      THEN FULL_WIDTH_SPACE
                                      ELSE chosen.character
          /\ Cardinality(screen) = columns * rows
\* a completed run over a grid of at least 2 x 2 tiles that printed two
\* different characters
C5_Witness ==
    /\ IsOk(result)
    /\ columns >= 2
    /\ rows >= 2
    /\ \E c1, c2 \in screen : c1.ch # c2.ch

\* C6: every fingerprint of a run, of the palette and of the tiles, has
\* IMAGE_SIZE * IMAGE_SIZE characteristics, whatever the size of the source
\* image and the column count.
C6_SameCharacteristicsLength ==
    /\ \A i \in DOMAIN typeset_elements :
          Len(typeset_elements[i].characteristics) = IMAGE_SIZE * IMAGE_SIZE
    /\ \A i \in DOMAIN picture_elements :
          Len(picture_elements[i].characteristics) = IMAGE_SIZE * IMAGE_SIZE

\* C7: Element::normalized called with min = max does not fail: it sets
\* every value of the characteristics to 0.0.
C7_EqualRangeGivesZeros ==
    (call_outcome # None /\ call_min = call_max)
    => /\ IsOk(call_outcome)
       /\ \A k \in DOMAIN call_self.characteristics :
             call_self.characteristics[k] = Zero

\* C8: Element::normalized called with min > max fails with the invalid
\* range error and leaves the characteristics and the luminance of the
\* element as they were.
C8_InvertedRangeFails ==
    [][(call_outcome = None /\ RGt(call_min, call_max))
       => /\ IsErr(call_outcome')
          /\ call_outcome'.err[1] = "Invalid range: min must be less than max"
          /\ call_self' = call_self]_vars
\* a call with min > max on an element with characteristics has returned
C8_Witness ==
    /\ call_outcome # None
    /\ RGt(call_min, call_max)
    /\ call_self.characteristics # <<>>

\* the fingerprints of the two collections that have been normalized
NormalizedTypeset ==
    IF pc = "normalize_typeset" THEN DOMAIN typeset_elements \ pending
    ELSE IF pc = "normalize_picture" \/ AfterNormalization
         THEN DOMAIN typeset_elements ELSE {}
NormalizedPicture ==
    IF pc = "normalize_picture" THEN DOMAIN picture_elements \ pending
    ELSE IF AfterNormalization THEN DOMAIN picture_elements ELSE {}

Least(S) == CHOOSE a \in S : \A b \in S : RLe(a, b)
Greatest(S) == CHOOSE a \in S : \A b \in S : RGe(a, b)

\* C10: the two collections are normalized independently: while and after
\* the palette is normalized, every palette fingerprint that has been
\* rescaled is the fingerprint as made, rescaled with the least and greatest
\* brightness of the palette, and the tiles are as they were made; while and
\* after the tiles are normalized, every rescaled tile fingerprint is the
\* tile as made, rescaled with the least and greatest brightness of the
\* tiles, and the palette keeps its own normalization.
C10_IndependentNormalization ==
    pc \in {"normalize_typeset", "normalize_picture", "sort"}
    => LET glyphs == [i \in DOMAIN characters |-> from_char(characters[i]).val]
           tiles == [i \in DOMAIN picture_elements |->
                        from_image(TileImage(img, IMAGE_SIZE, columns, i - 1)).val]
           glyph_range == {glyphs[i].luminance : i \in DOMAIN glyphs}
           tile_range == {tiles[i].luminance : i \in DOMAIN tiles}
           glyph_min == Least(glyph_range)
           glyph_max == Greatest(glyph_range)
           tile_min == Least(tile_range)
           tile_max == Greatest(tile_range)
       IN /\ DOMAIN typeset_elements = DOMAIN characters
          /\ \A i \in DOMAIN typeset_elements :
                typeset_elements[i] =
                   IF i \in NormalizedTypeset
                   THEN normalized(glyphs[i], glyph_min, glyph_max).self
                   ELSE glyphs[i]
          /\ \A i \in DOMAIN picture_elements :
                picture_elements[i] =
                   IF i \in NormalizedPicture
                   THEN normalized(tiles[i], tile_min, tile_max).self
                   ELSE tiles[i]
\* both collections normalized, from different brightness ranges
C10_Witness ==
    /\ pc = "sort"
    /\ typeset_elements # <<>>
    /\ picture_elements # <<>>
    /\ <<typeset_min, typeset_max>> # <<picture_min, picture_max>>

IsConstant(values) == \A i, j \in DOMAIN values : values[i] = values[j]

\* C11: for slices of the same length, not empty, of which at least one is
\* constant (the denominator is below the near-zero threshold), correlation
\* returns 1.0 when both are constant with the same value and 0.0
\* otherwise; it returns a number, never None and never the quotient by a
\* zero denominator.
C11_ConstantVectors ==
    (/\ corr_ret # NotCalled
     /\ Len(corr_x_values) = Len(corr_y_values)
     /\ corr_x_values # <<>>
     /\ IsConstant(corr_x_values) \/ IsConstant(corr_y_values))
    => corr_ret.value =
          IF /\ IsConstant(corr_x_values)
             /\ IsConstant(corr_y_values)
             /\ corr_x_values[1] = corr_y_values[1]
          THEN One ELSE Zero
\* correlation has returned for two constant slices of different values
C11_Witness ==
    /\ corr_ret # NotCalled
    /\ Len(corr_x_values) = Len(corr_y_values)
    /\ Len(corr_x_values) >= 2
    /\ IsConstant(corr_x_values)
    /\ IsConstant(corr_y_values)
    /\ corr_x_values[1] # corr_y_values[1]

\* the coarse search of the direct call: its target, whether a palette entry
\* has exactly the luminance of the target, the insertion point of the target
\* and the distance between the target and the entry of index k (from 0)
SearchTarget == search_picture_element.luminance
ExactMatch ==
    \E j \in DOMAIN search_typeset_elements :
       search_typeset_elements[j].luminance = SearchTarget
InsertionPoint ==
    Cardinality({j \in DOMAIN search_typeset_elements :
                    RLt(search_typeset_elements[j].luminance, SearchTarget)})
Distance(k) == RAbs(RSub(search_typeset_elements[k + 1].luminance, SearchTarget))
BetweenNeighbours ==
    /\ search_index # NotCalled
    /\ ~ExactMatch
    /\ 0 < InsertionPoint
    /\ InsertionPoint < Len(search_typeset_elements)

\* C12 as stated: with no exact match and the insertion point i inside the
\* palette, closest_luminance_index returns the closer of i - 1 and i, and
\* i - 1 when the two distances are equal.
C12_TiesFavourLower ==
    BetweenNeighbours
    => search_index.value =
          IF RLe(Distance(InsertionPoint - 1), Distance(InsertionPoint))
          THEN InsertionPoint - 1 ELSE InsertionPoint

\* C12 amended: with no exact match and the insertion point i inside the
\* palette, closest_luminance_index returns i - 1 when the entry at i - 1 is
\* strictly closer to the target than the entry at i, and i otherwise (so i
\* when the two distances are equal).
C12_TiesFavourInsertionPoint ==
    BetweenNeighbours
    => search_index.value =
          IF RLt(Distance(InsertionPoint - 1), Distance(InsertionPoint))
          THEN InsertionPoint - 1 ELSE InsertionPoint
\* the coarse search has returned for a target half way between its neighbours
C12_Witness ==
    /\ BetweenNeighbours
    /\ Distance(InsertionPoint - 1) = Distance(InsertionPoint)

\* C13: for a palette sorted by luminance and any target, the index that
\* closest_luminance_index returns is in range and no entry of the palette
\* is closer in luminance to the target than the entry at that index (with
\* an exact match, the entry at the index has the luminance of the target);
\* for an empty palette it returns 0.
C13_ClosestInRange ==
    search_index # NotCalled
    => IF search_typeset_elements = <<>> THEN search_index.value = 0
       ELSE /\ search_index.value \in 0..(Len(search_typeset_elements) - 1)
            /\ \A j \in 0..(Len(search_typeset_elements) - 1) :
                  RLe(Distance(search_index.value), Distance(j))
            /\ ExactMatch
               => search_typeset_elements[search_index.value + 1].luminance
                     = SearchTarget
\* the coarse search has returned an index inside a palette of three
\* luminances, for a target that no entry matches
C13_Witness ==
    /\ search_index # NotCalled
    /\ ~ExactMatch
    /\ Cardinality({search_typeset_elements[j].luminance :
                       j \in DOMAIN search_typeset_elements}) = 3
    /\ 0 < search_index.value
    /\ search_index.value < Len(search_typeset_elements) - 1

\* the fine search of the direct call: the coarse indices (from 0), the
\* window of palette positions (from 1) around a coarse index, and the
\* correlation of the tile with the entry at a position
CoarseIndices == closest_luminance_index(SearchTarget, search_typeset_elements)
WindowFrom(index) == Max(index - 8, 0)
WindowTo(index) == Min(Len(search_typeset_elements), WindowFrom(index) + 16)
Window(index) == (WindowFrom(index) + 1)..WindowTo(index)
Score(k) == correlation(search_picture_element.characteristics,
                        search_typeset_elements[k].characteristics)

\* C14: the fine search looks at the palette entries of the window
\* [from, min(len, from + 16)) with from = max(0, index - 8) around the
\* coarse index: the window holds at most 16 entries and the coarse index,
\* and an entry that search_typeset_element returns is an entry of the
\* window with a defined correlation that no entry of the window with a
\* defined correlation exceeds.
C14_FineSearchWindow ==
    (search_ret # NotCalled /\ search_typeset_elements # <<>>)
    => \E index \in CoarseIndices :
          /\ index + 1 \in Window(index)
          /\ Cardinality(Window(index)) <= 16
          /\ search_ret.value # None
             => \E k \in Window(index) :
                   /\ search_typeset_elements[k] = search_ret.value
                   /\ Score(k) # None
                   /\ \A c \in Window(index) :
                         Score(c) # None => RGe(Score(k), Score(c))
\* the fine search has returned an entry for a coarse index whose window
\* leaves out entries at both ends of the palette, one of them correlated
\* with the tile as well as the entry returned
C14_Witness ==
    /\ search_ret # NotCalled
    /\ search_ret.value # None
    /\ \A index \in CoarseIndices :
          /\ WindowFrom(index) > 0
          /\ WindowTo(index) < Len(search_typeset_elements)
          /\ \E k \in DOMAIN search_typeset_elements \ Window(index) :
                /\ Score(k) # None
                /\ RGe(Score(k), correlation(search_picture_element.characteristics,
                                             search_ret.value.characteristics))

\* C15: for a palette that is not empty and a tile whose characteristics
\* have the length, not zero, of the characteristics of every palette entry,
\* search_typeset_element returns an entry of the palette, never None.
C15_AlwaysSomeMatch ==
    (/\ search_ret # NotCalled
     /\ search_typeset_elements # <<>>
     /\ search_picture_element.characteristics # <<>>
     /\ \A k \in DOMAIN search_typeset_elements :
           Len(search_typeset_elements[k].characteristics)
              = Len(search_picture_element.characteristics))
    => /\ search_ret.value # None
       /\ \E k \in DOMAIN search_typeset_elements :
             search_typeset_elements[k] = search_ret.value

\* the stages of a run, as the statements and the data show them
TileExtractionStarted == picture_elements # <<>>
SearchStarted ==
    \E i \in DOMAIN typist_art_elements : typist_art_elements[i] # None
PaletteNormalized ==
    pc \in {"normalize_picture", "sort", "convert", "animate"} \/ IsOk(result)
PaletteSorted == pc \in {"convert", "animate"} \/ IsOk(result)
TilesNormalized == AfterNormalization
IsSortedByLuminance(elements) ==
    \A i, j \in DOMAIN elements :
       i < j => RLe(elements[i].luminance, elements[j].luminance)

\* C16 as stated: tile extraction does not start before the palette has
\* been normalized and sorted, and no per-tile search starts before both
\* collections are normalized and the palette is sorted.
C16_TilesAfterPaletteSorted ==
    /\ TileExtractionStarted => (PaletteNormalized /\ PaletteSorted)
    /\ SearchStarted => (PaletteNormalized /\ TilesNormalized /\ PaletteSorted)

\* the order of the statements of Model::run, and the statements that end early
StageSteps ==
    {<<"resize", "typeset_elements">>, <<"typeset_elements", "picture_elements">>,
     <<"picture_elements", "min_max">>, <<"min_max", "normalize_typeset">>,
     <<"normalize_typeset", "normalize_picture">>, <<"normalize_picture", "sort">>,
     <<"sort", "convert">>, <<"convert", "animate">>, <<"animate", "returned">>}
EarlyExits ==
    {<<"typeset_elements", "returned">>, <<"picture_elements", "returned">>,
     <<"normalize_typeset", "panicked">>, <<"normalize_picture", "panicked">>}

\* C16 amended: the stages of a run are strictly sequential in the order
\* resize, palette render, tile extraction, palette normalization, tile
\* normalization, palette sort, per-tile search, assembly: a stage starts
\* only when every item of the stage before it is done, and no per-tile
\* search starts before both collections are normalized and the palette is
\* sorted.
C16_StagesInOrder ==
    /\ [](SearchStarted
            => /\ PaletteNormalized /\ TilesNormalized /\ PaletteSorted
               /\ IsSortedByLuminance(typeset_elements))
    /\ [](TileExtractionStarted => Len(typeset_elements) = Len(characters))
    /\ [][pc' # pc
            => /\ <<pc, pc'>> \in StageSteps \cup EarlyExits
               /\ <<pc, pc'>> \in StageSteps
                  /\ pc \in {"normalize_typeset", "normalize_picture", "convert"}
                  => pending = {}]_vars
\* a per-tile search is done and another is still to do, with a palette of
\* two entries or more
C16_Witness ==
    /\ SearchStarted
    /\ pc = "convert"
    /\ pending # {}
    /\ Len(typeset_elements) >= 2

\* the order in which the palette holds the characters: entry k is the
\* character of position order[k] of the input
Orders ==
    {order \in [DOMAIN typeset_elements -> DOMAIN characters] :
        /\ \A k, l \in DOMAIN typeset_elements : k # l => order[k] # order[l]
        /\ \A k \in DOMAIN typeset_elements :
              typeset_elements[k].character = characters[order[k]]}

\* C17: when the per-tile search begins and while it runs, the palette is
\* in the order of non-decreasing luminance, it holds the characters of the
\* input, and entries of the same luminance are in the order of the input.
C17_SortedAndStable ==
    pc = "convert"
    => /\ IsSortedByLuminance(typeset_elements)
       /\ Len(typeset_elements) = Len(characters)
       /\ \E order \in Orders :
             \A k, l \in DOMAIN typeset_elements :
                (/\ k < l
                 /\ typeset_elements[k].luminance = typeset_elements[l].luminance)
                => order[k] < order[l]
\* the search begins with a palette that the sort has reordered and that
\* holds two different characters of the same luminance
C17_Witness ==
    /\ pc = "convert"
    /\ [k \in DOMAIN typeset_elements |-> typeset_elements[k].character] # characters
    /\ \E k, l \in DOMAIN typeset_elements :
          /\ typeset_elements[k].luminance = typeset_elements[l].luminance
          /\ typeset_elements[k].character # typeset_elements[l].character

\* C18: the parallel per-tile search is deterministic and free of races:
\* a step of a worker fills the slot of its own tile and writes neither
\* another slot, nor the palette, nor the tiles; and when every worker is
\* done, in whatever order, slot i holds the one match of tile i against the
\* sorted palette, as a search of the tiles in the order of their indices
\* gives it.
C18_ConvertDeterministic ==
    /\ [](pc = "animate"
            => \A i \in DOMAIN picture_elements :
                  convert_one(picture_elements[i], typeset_elements)
                     = {typist_art_elements[i]})
    /\ [][(pc = "convert" /\ pc' = "convert")
            => /\ typeset_elements' = typeset_elements
               /\ picture_elements' = picture_elements
               /\ \E i \in pending :
                     /\ pending' = pending \ {i}
                     /\ typist_art_elements[i] = None
                     /\ typist_art_elements'[i] # None
                     /\ \A j \in DOMAIN typist_art_elements \ {i} :
                           typist_art_elements'[j] = typist_art_elements[j]]_vars
\* every worker is done, and two tiles have different matches
C18_Witness ==
    /\ pc = "animate"
    /\ \E i, j \in DOMAIN typist_art_elements :
          typist_art_elements[i] # typist_art_elements[j]

====
